---- MODULE Spec2Model ----
(***************************************************************************)
(* Model of gpu-temperature-aio-controller.py: the GPUCoolingController    *)
(* life cycle (start / backup / initial setpoints / poll loop / stop) and  *)
(* the module-level signal_handler, which Python runs on top of the main   *)
(* thread's stack and which ends in sys.exit(0).                           *)
(*                                                                         *)
(* Grain of atomicity: one step per file operation.  `with open(p,'w') as  *)
(* f: f.write(s)` is two steps, because the text is only buffered by       *)
(* f.write and reaches the register when the file is closed at the end of  *)
(* the with block (also when an exception unwinds through the block).      *)
(***************************************************************************)
EXTENDS Integers, Sequences, FiniteSets, TLC

\* ---------------------------------------------------------------- bounds
NumFans == 1          \* number of configured fan devices
MaxTicks == 2         \* poll-loop iterations explored
MaxSignals == 1       \* termination signals delivered in one run

\* ------------------------------------------------- configuration defaults
temp_threshold == 70
min_pump_pwm == 100
max_pump_pwm == 255
min_fan_pwm == 80
max_fan_pwm == 255
pwm_step == 20

\* get_gpu_temp() returning None: a value no reading can take
None == -1

\* Actuator 0 is the pump, 1..NumFans are the fans (fan_index + 1).
Actuators == 0..NumFans
Fans == 1..NumFans
Kinds == {"pwm", "enable"}
Registers == Actuators \X Kinds

\* pump_device / fan_devices[i] and pump_enable / fan_enables[i]
pwm_device(a) == <<a, "pwm">>
pwm_enable(a) == <<a, "enable">>

\* Values the registers may hold before control begins, and the readings
\* one poll of nvidia-smi may return.
InitDuty == {0, 128}
InitMode == {1, 2}
Temps == {58, 65, 95}

\* ------------------------------------------------------------ raw strings
Digits == <<"0", "1", "2", "3", "4", "5", "6", "7", "8", "9">>
DigitVal(c) == CHOOSE d \in 0..9 : Digits[d + 1] = c
IsDigit(c) == \E d \in 0..9 : Digits[d + 1] = c

RECURSIVE ToStr(_)
\* str(value) for a non-negative integer
ToStr(n) == IF n < 10 THEN <<Digits[n + 1]>>
            ELSE ToStr(n \div 10) \o <<Digits[(n % 10) + 1]>>

\* what reading a sysfs attribute returns: the decimal value and a newline
ReadRaw(n) == ToStr(n) \o <<"\n">>

IsSpace(c) == c \in {"\n", " ", "\t"}

RECURSIVE StripLeft(_)
StripLeft(s) == IF s # <<>> /\ IsSpace(Head(s)) THEN StripLeft(Tail(s)) ELSE s

RECURSIVE StripRight(_)
StripRight(s) == IF s # <<>> /\ IsSpace(s[Len(s)])
                 THEN StripRight(SubSeq(s, 1, Len(s) - 1)) ELSE s

\* str.strip()
Strip(s) == StripLeft(StripRight(s))

RECURSIVE ParseDigits(_, _)
ParseDigits(s, acc) == IF s = <<>> THEN acc
                       ELSE IF ~IsDigit(Head(s)) THEN -1
                       ELSE ParseDigits(Tail(s), acc * 10 + DigitVal(Head(s)))

\* the value a register takes when the text s is written to it (-1: rejected)
ParseRaw(s) == LET t == StripRight(s) IN IF t = <<>> THEN -1 ELSE ParseDigits(t, 0)


\* ------------------------------------------------------------------ state
VARIABLES
  hw,                 \* register -> value held by the hardware
  enable_exists,      \* actuators whose <pwm>_enable file exists
  unreadable,         \* registers whose read raises during capture
  steady,             \* the reading every poll returns, or None when polls vary
  original_settings,  \* self.original_settings: register -> raw string
  current_pump_pwm,   \* self.current_pump_pwm
  current_fan_pwms,   \* self.current_fan_pwms
  running,            \* self.running
  stack,              \* call stack: start() at the bottom, handlers above
  exc,                \* exception in flight: "none" or "SystemExit"
  ticks,              \* loop iterations begun
  nsignals,           \* signals delivered
  restoreCount,       \* calls of restore_original_settings begun
  stopsDone,          \* calls of stop() that have returned
  restoreFail,        \* some restore write-back has failed
  lateWrite,          \* a duty write of the loop reached hardware after a restore began
  ctlWrote,           \* a set_*_pwm write has reached hardware
  captureDone,        \* backup_original_settings has returned
  lastStop            \* <<state left by the latest completed stop()>>, or <<>>

vars == <<hw, enable_exists, unreadable, steady, original_settings,
          current_pump_pwm, current_fan_pwms, running, stack, exc, ticks, nsignals,
          restoreCount, stopsDone, restoreFail, lateWrite, ctlWrote, captureDone,
          lastStop>>

env == <<enable_exists, unreadable, steady>>
setpoints == <<current_pump_pwm, current_fan_pwms>>
hist == <<restoreCount, stopsDone, restoreFail, lateWrite, ctlWrote,
          captureDone, lastStop>>

\* Order in which backup_original_settings reads the registers; a dict keeps
\* insertion order, so restore_original_settings walks the same order.
CaptureLen == 2 * (NumFans + 1)
CaptureOrder == [k \in 1..CaptureLen |->
                   IF k = 1 THEN pwm_enable(0)
                   ELSE IF k = 2 THEN pwm_device(0)
                   ELSE IF k % 2 = 1 THEN pwm_device((k - 1) \div 2)
                   ELSE pwm_enable((k - 2) \div 2)]

RegExists(r) == r[2] = "pwm" \/ r[1] \in enable_exists

current(a) == IF a = 0 THEN current_pump_pwm ELSE current_fan_pwms[a]
\* variant: the pump takes the fans' lower bound and the fans the pump's
min_pwm_swapped(a) == IF a = 0 THEN min_fan_pwm ELSE min_pump_pwm
\* variant: no lower bound
min_pwm_zero(a) == 0
min_pwm(a) == IF a = 0 THEN min_pump_pwm ELSE min_fan_pwm
\* variant: an upper bound above the configured one
max_pwm_raised(a) == 300
max_pwm(a) == IF a = 0 THEN max_pump_pwm ELSE max_fan_pwm

Min(x, y) == IF x < y THEN x ELSE y
Max(x, y) == IF x > y THEN x ELSE y
SetMax(S) == CHOOSE x \in S : \A y \in S : y <= x

NoPend == <<>>

\* A frame's locals, with what the call has done so far: old is the pair of
\* recorded setpoints adjust_cooling was called with, failed the actuators
\* whose set_*_pwm returned False in this tick, lost the registers whose
\* write-back failed in this restore pass.
Frame(phase, pc) ==
  [phase |-> phase, pc |-> pc, a |-> 0, n |-> 0, val |-> 0, pend |-> NoPend,
   ok |-> TRUE, temp |-> None, sensor |-> "none", res |-> TRUE,
   old |-> <<>>, failed |-> {}, lost |-> {}]

top == stack[Len(stack)]
SetTop(f) == [stack EXCEPT ![Len(stack)] = f]
Active == stack # <<>> /\ exc = "none"
Stopped == stack = <<>>

Init ==
  /\ enable_exists \in SUBSET Actuators
  /\ \E d \in InitDuty, m \in InitMode :
       hw = [r \in Registers |-> IF r[2] = "pwm" THEN d + r[1]
                                 ELSE IF r[1] \in enable_exists THEN m ELSE 0]
  /\ unreadable \in {{}} \cup {{r} : r \in {x \in Registers : RegExists(x)}}
  /\ steady = None
  /\ original_settings = [r \in {} |-> <<>>]
  /\ current_pump_pwm = min_pump_pwm
  /\ current_fan_pwms = [i \in Fans |-> min_fan_pwm]
  /\ running = FALSE
  /\ stack = <<Frame("init", "start")>>
  /\ exc = "none"
  /\ ticks = 0
  /\ nsignals = 0
  /\ restoreCount = 0
  /\ stopsDone = 0
  /\ restoreFail = FALSE
  /\ lateWrite = FALSE
  /\ ctlWrote = FALSE
  /\ captureDone = FALSE
  /\ lastStop = <<>>


\* ------------------------------------------------------- file operations
\* Effect on the hardware of closing a file opened for writing with the text
\* pend[2] buffered: the register takes the parsed value.
Flushed(pend) == [hw EXCEPT ![pend[1]] = ParseRaw(pend[2])]

\* next index >= k of CaptureOrder that is a key of original_settings
RECURSIVE NextEntry(_)
NextEntry(k) == IF k > CaptureLen THEN k
                ELSE IF CaptureOrder[k] \in DOMAIN original_settings THEN k
                ELSE NextEntry(k + 1)

\* ------------------------------------------------------------ start()
\* variant: start() goes to the initial writes without the backup
start_begin_nobackup(f) == [f EXCEPT !.pc = "set", !.a = 0, !.val = min_pump_pwm]

\* start(): self.running = True, then backup_original_settings()
start_begin(f) == [f EXCEPT !.pc = "backup", !.n = 1]

Start ==
  /\ Active /\ top.pc = "start"
  /\ running' = TRUE
  /\ stack' = SetTop(start_begin(top))
  /\ UNCHANGED <<hw, env, original_settings, setpoints, exc, ticks, nsignals, hist>>

\* the call set_pump_pwm(min_pump_pwm) that follows the backup
initial_writes(f) == [f EXCEPT !.pc = "set", !.a = 0, !.n = 0, !.val = min_pump_pwm]

\* what an exception inside backup_original_settings does to the capture:
\* the single try/except around the whole body ends it
backup_on_error(f) == initial_writes(f)

\* backup_original_settings(): one read per step
Backup ==
  /\ Active /\ top.pc = "backup"
  /\ LET r == CaptureOrder[top.n]
         nxt == IF top.n < CaptureLen THEN [top EXCEPT !.n = top.n + 1]
                ELSE initial_writes(top)
     IN IF ~RegExists(r)
        THEN /\ stack' = SetTop(nxt)
             /\ UNCHANGED original_settings
        ELSE IF r \in unreadable
        THEN /\ stack' = SetTop(backup_on_error(top))
             /\ UNCHANGED original_settings
        ELSE /\ original_settings' = (r :> Strip(ReadRaw(hw[r]))) @@ original_settings
             /\ stack' = SetTop(nxt)
  /\ captureDone' = (stack'[Len(stack')].pc # "backup")
  /\ UNCHANGED <<hw, env, setpoints, running, exc, ticks, nsignals, restoreCount,
                 stopsDone, restoreFail, lateWrite, ctlWrote, lastStop>>


\* ------------------------------------------------- set_pump_pwm / set_fan_pwm
\* the range check at the head of set_pump_pwm / set_fan_pwm
Clamp(a, value) == IF value < min_pwm(a) THEN min_pwm(a)
                   ELSE IF value > max_pwm(a) THEN max_pwm(a)
                   ELSE value

\* where the caller continues once set_*_pwm has returned res
AfterSet(f, res) ==
  IF f.phase = "init"
  THEN IF f.a < NumFans
       THEN [f EXCEPT !.pc = "set", !.a = f.a + 1, !.val = min_fan_pwm,
                      !.pend = NoPend, !.res = res]
       ELSE Frame("tick", "loop")
  ELSE LET g == [f EXCEPT !.pend = NoPend, !.res = res,
                          !.failed = IF res THEN f.failed ELSE f.failed \cup {f.a}]
       IN IF f.a < NumFans
          THEN [g EXCEPT !.pc = "adjust", !.a = f.a + 1]
          ELSE [g EXCEPT !.pc = "sleep"]

\* variant: the setpoint is recorded before the write is attempted
setpoint_on_failure_recorded(a, v) == v

\* the recorded setpoint of actuator a after set_*_pwm(v) raised: the
\* assignment to self.current_* is skipped
setpoint_on_failure(a, v) == current(a)

Record(a, v) ==
  /\ current_pump_pwm' = IF a = 0 THEN v ELSE current_pump_pwm
  /\ current_fan_pwms' = IF a = 0 THEN current_fan_pwms
                         ELSE [current_fan_pwms EXCEPT ![a] = v]

\* the except branch of set_*_pwm: log and return False
SetFailed(f) ==
  /\ stack' = SetTop(AfterSet(f, FALSE))
  /\ Record(f.a, setpoint_on_failure(f.a, f.val))

\* a write of set_*_pwm, called from frame f, has reached the hardware
CtlWriteNoted(f) ==
  /\ ctlWrote' = TRUE
  /\ lateWrite' = (lateWrite \/ (restoreCount > 0 /\ f.phase = "tick"
                                    /\ f.pc = "pwm_close"))
  /\ lastStop' = <<>>

\* clamp, then open <pwm>_enable (if it exists) and buffer "1"
SetBegin ==
  /\ Active /\ top.pc = "set"
  /\ LET f == [top EXCEPT !.val = Clamp(top.a, top.val)]
     IN IF top.a \in enable_exists
        THEN \E okk \in BOOLEAN :
               IF okk
               THEN /\ stack' = SetTop([f EXCEPT !.pc = "en_close",
                                                !.pend = <<pwm_enable(f.a), <<"1">>>>])
                    /\ UNCHANGED setpoints
               ELSE SetFailed(f)
        ELSE /\ stack' = SetTop([f EXCEPT !.pc = "pwm_open"])
             /\ UNCHANGED setpoints
  /\ UNCHANGED <<hw, env, original_settings, running, exc, ticks, nsignals, hist>>

\* end of the with block on <pwm>_enable: the buffered "1" is written
SetEnableClose ==
  /\ Active /\ top.pc = "en_close"
  /\ \E okk \in BOOLEAN :
       IF okk
       THEN /\ hw' = Flushed(top.pend)
            /\ stack' = SetTop([top EXCEPT !.pc = "pwm_open", !.pend = NoPend])
            /\ CtlWriteNoted(top)
            /\ UNCHANGED setpoints
       ELSE /\ SetFailed(top)
            /\ UNCHANGED <<hw, ctlWrote, lateWrite, lastStop>>
  /\ UNCHANGED <<env, original_settings, running, exc, ticks, nsignals,
                 restoreCount, stopsDone, restoreFail, captureDone>>

\* open the duty-cycle file and buffer str(value)
SetPwmOpen ==
  /\ Active /\ top.pc = "pwm_open"
  /\ \E okk \in BOOLEAN :
       IF okk
       THEN /\ stack' = SetTop([top EXCEPT !.pc = "pwm_close",
                                          !.pend = <<pwm_device(top.a), ToStr(top.val)>>])
            /\ UNCHANGED setpoints
       ELSE SetFailed(top)
  /\ UNCHANGED <<hw, env, original_settings, running, exc, ticks, nsignals, hist>>

\* end of the with block on the duty-cycle file, then self.current_* = value
SetPwmClose ==
  /\ Active /\ top.pc = "pwm_close"
  /\ \E okk \in BOOLEAN :
       IF okk
       THEN /\ hw' = Flushed(top.pend)
            /\ stack' = SetTop(AfterSet(top, TRUE))
            /\ Record(top.a, top.val)
            /\ CtlWriteNoted(top)
       ELSE /\ SetFailed(top)
            /\ UNCHANGED <<hw, ctlWrote, lateWrite, lastStop>>
  /\ UNCHANGED <<env, original_settings, running, exc, ticks, nsignals,
                 restoreCount, stopsDone, restoreFail, captureDone>>


\* ------------------------------------------------------------ poll loop
\* variant: an empty reading set yields 0 instead of None
get_gpu_temp_zero(status, readings) ==
  IF status = "CalledProcessError" THEN None
  ELSE IF readings = {} THEN 0
  ELSE SetMax(readings)

\* get_gpu_temp(): None when nvidia-smi fails or prints no reading, else the
\* highest reading
get_gpu_temp(status, readings) ==
  IF status = "CalledProcessError" THEN None
  ELSE IF readings = {} THEN None
  ELSE SetMax(readings)

\* the try block's finally clause: self.stop()
EnterFinally(f) == Frame("fin", "stop")

\* A poll that cannot change a setpoint: nvidia-smi fails, or every reading
\* lies in the deadband.  Once MaxTicks ticks have been explored the loop
\* keeps polling, with quiet polls only.
Quiet(status, readings) ==
  \/ status = "CalledProcessError"
  \/ /\ status = "ok"
     /\ \A t \in readings : temp_threshold - 10 <= t /\ t <= temp_threshold

\* the reading sets one poll may return
Polls == IF steady = None THEN SUBSET Temps ELSE {{steady}}

\* `while self.running:` followed by temp = self.get_gpu_temp(); a status of
\* "ValueError" is output that int() rejects, which escapes the loop body.
\* Under a steady reading every poll succeeds, and the setpoints bound the
\* states by themselves: all ticks are explored.
Loop ==
  /\ Active /\ top.pc = "loop"
  /\ IF ~running
     THEN /\ stack' = SetTop(EnterFinally(top))
          /\ UNCHANGED ticks
     ELSE /\ ticks' = IF ticks < MaxTicks THEN ticks + 1 ELSE ticks
          /\ \E status \in {"ok", "CalledProcessError", "ValueError"},
                readings \in Polls :
               /\ status # "ok" => readings = {}
               /\ steady # None => status = "ok"
               /\ ticks < MaxTicks \/ Quiet(status, readings) \/ steady # None
               /\ IF status = "ValueError"
                  THEN stack' = SetTop(EnterFinally(top))
                  ELSE LET t == get_gpu_temp(status, readings)
                           f == [top EXCEPT !.temp = t, !.a = 0, !.old = setpoints,
                                   !.sensor = IF status = "ok" /\ readings # {}
                                              THEN "ok" ELSE "failed"]
                       IN stack' = SetTop(IF t # None THEN [f EXCEPT !.pc = "adjust"]
                                          ELSE [f EXCEPT !.pc = "sleep"])
  /\ UNCHANGED <<hw, env, original_settings, setpoints, running, exc, nsignals, hist>>

\* variant: no increase
pwm_increase_none(temp) == 0

\* pwm_increase and fan_increase = int(pwm_increase * 1.5)
pwm_increase(temp) == ((temp - temp_threshold) \div 5 + 1) * pwm_step
\* variant: the fans are raised by the pump's increase, without the 1.5
fan_increase_same(temp) == pwm_increase(temp)
fan_increase(temp) == (pwm_increase(temp) * 3) \div 2
increase(a, temp) == IF a = 0 THEN pwm_increase(temp) ELSE fan_increase(temp)

\* the value adjust_cooling computes for actuator a
new_pwm(a, temp, cur) ==
  IF temp > temp_threshold THEN Min(cur + increase(a, temp), max_pwm(a))
  ELSE Max(cur - pwm_step, min_pwm(a))

\* variant: the increase branch is taken from the threshold on (>=)
should_set_inclusive(a, temp, cur) ==
  IF temp >= temp_threshold THEN Min(cur + pwm_step, max_pwm(a)) > cur
  ELSE IF temp < temp_threshold - 10 THEN cur > min_pwm(a)
  ELSE FALSE

\* variant: set_*_pwm is called whenever the reading is outside the deadband
should_set_always(a, temp, cur) ==
  temp > temp_threshold \/ temp < temp_threshold - 10

\* whether adjust_cooling calls set_*_pwm for actuator a
should_set(a, temp, cur) ==
  IF temp > temp_threshold THEN new_pwm(a, temp, cur) > cur
  ELSE IF temp < temp_threshold - 10 THEN cur > min_pwm(a)
  ELSE FALSE

\* adjust_cooling(temp), one actuator per step: pump first, then each fan
Adjust ==
  /\ Active /\ top.pc = "adjust"
  /\ LET a == top.a
     IN IF top.temp # None /\ should_set(a, top.temp, current(a))
        THEN stack' = SetTop([top EXCEPT !.pc = "set",
                                        !.val = new_pwm(a, top.temp, current(a))])
        ELSE IF a < NumFans
        THEN stack' = SetTop([top EXCEPT !.a = a + 1])
        ELSE stack' = SetTop([top EXCEPT !.pc = "sleep"])
  /\ UNCHANGED <<hw, env, original_settings, setpoints, running, exc, ticks,
                 nsignals, hist>>

\* time.sleep(self.update_interval)
Sleep ==
  /\ Active /\ top.pc = "sleep"
  /\ stack' = SetTop(Frame("tick", "loop"))
  /\ UNCHANGED <<hw, env, original_settings, setpoints, running, exc, ticks,
                 nsignals, hist>>

\* ------------------------------------------ stop() / restore_original_settings
\* variant: stop() flips the flag instead of clearing it
stop_running_toggle(r) == ~r

\* stop(): the value self.running takes
stop_running(r) == FALSE

\* stop(): self.running = False, then restore_original_settings() begins
StopBegin ==
  /\ Active /\ top.pc = "stop"
  /\ running' = stop_running(running)
  /\ restoreCount' = restoreCount + 1
  /\ stack' = SetTop([top EXCEPT !.pc = "restore", !.n = NextEntry(1), !.ok = TRUE])
  /\ UNCHANGED <<hw, env, original_settings, setpoints, exc, ticks, nsignals,
                 stopsDone, restoreFail, lateWrite, ctlWrote, captureDone, lastStop>>

\* variant: a failing write-back ends the pass (no per-entry try/except)
restore_abort(f) ==
  [f EXCEPT !.pc = "restore", !.n = CaptureLen + 1, !.pend = NoPend,
            !.ok = FALSE, !.lost = f.lost \cup {CaptureOrder[f.n]}]

\* the inner except of restore_original_settings: log, go on with the next entry
restore_on_error(f) ==
  [f EXCEPT !.pc = "restore", !.n = NextEntry(f.n + 1), !.pend = NoPend,
            !.ok = FALSE, !.lost = f.lost \cup {CaptureOrder[f.n]}]

\* what follows the return of stop(): the handler goes on to sys.exit(0),
\* start()'s finally clause ends start()
AfterStop(f) == IF f.phase = "handler" THEN SetTop(Frame("handler", "sys_exit"))
                ELSE <<>>

\* What a returning stop() leaves behind, and how it compares with what the
\* stop() before it left (no set_*_pwm write having reached hardware between).
StopRecord(f) ==
  LET again == lastStop # <<>>
  IN [hw |-> hw, snap |-> original_settings, running |-> running, clean |-> f.ok,
      repeat |-> again,
      prevClean |-> again /\ lastStop[1].clean,
      same |-> again /\ lastStop[1].hw = hw /\ lastStop[1].snap = original_settings
                     /\ lastStop[1].running = running]

\* variant: the recorded setpoint is written back instead of the captured text
restore_text_setpoint(r) == ToStr(current(r[1]))

\* f.write(value): the text written back to register r is its snapshot entry
restore_text(r) == original_settings[r]

\* one entry of `for device, value in self.original_settings.items()`: open
\* the device and buffer the captured text; past the last entry stop() returns
Restore ==
  /\ Active /\ top.pc = "restore"
  /\ IF top.n > CaptureLen
     THEN /\ stack' = AfterStop(top)
          /\ stopsDone' = stopsDone + 1
          /\ lastStop' = <<StopRecord(top)>>
          /\ UNCHANGED restoreFail
     ELSE /\ \E okk \in BOOLEAN :
               IF okk
               THEN /\ stack' = SetTop([top EXCEPT !.pc = "restore_close",
                         !.pend = <<CaptureOrder[top.n],
                                    restore_text(CaptureOrder[top.n])>>])
                    /\ UNCHANGED restoreFail
               ELSE /\ stack' = SetTop(restore_on_error(top))
                    /\ restoreFail' = TRUE
          /\ UNCHANGED <<stopsDone, lastStop>>
  /\ UNCHANGED <<hw, env, original_settings, setpoints, running, exc, ticks,
                 nsignals, restoreCount, lateWrite, ctlWrote, captureDone>>

\* end of the with block of one entry: the captured text is written back
RestoreClose ==
  /\ Active /\ top.pc = "restore_close"
  /\ \E okk \in BOOLEAN :
       IF okk
       THEN /\ hw' = Flushed(top.pend)
            /\ stack' = SetTop([top EXCEPT !.pc = "restore", !.pend = NoPend,
                                          !.n = NextEntry(top.n + 1)])
            /\ UNCHANGED restoreFail
       ELSE /\ stack' = SetTop(restore_on_error(top))
            /\ restoreFail' = TRUE
            /\ UNCHANGED hw
  /\ UNCHANGED <<env, original_settings, setpoints, running, exc, ticks, nsignals,
                 restoreCount, stopsDone, lateWrite, ctlWrote, captureDone, lastStop>>

\* ------------------------------------------------------- signal_handler
\* delivery of SIGINT / SIGTERM: signal_handler starts on top of whatever
\* the main thread is executing and calls controller.stop()
\* variant: the signal is taken but no handler runs
signal_ignored(stk) == stk

signal_handler(stk) == Append(stk, Frame("handler", "stop"))

Signal ==
  /\ Active /\ nsignals < MaxSignals
  /\ nsignals' = nsignals + 1
  /\ stack' = signal_handler(stack)
  /\ UNCHANGED <<hw, env, original_settings, setpoints, running, exc, ticks, hist>>

\* sys.exit(0) in signal_handler: SystemExit is raised into the interrupted code
SysExit ==
  /\ Active /\ top.pc = "sys_exit"
  /\ stack' = SubSeq(stack, 1, Len(stack) - 1)
  /\ exc' = "SystemExit"
  /\ UNCHANGED <<hw, env, original_settings, setpoints, running, ticks, nsignals, hist>>

\* SystemExit leaves a with block whose file still holds buffered text: the
\* file is closed and the text written.  If that write fails its OSError
\* replaces SystemExit and is caught by the surrounding `except Exception`.
UnwindClose ==
  /\ exc = "SystemExit" /\ stack # <<>> /\ top.pend # NoPend
  /\ LET isSet == top.pc \in {"en_close", "pwm_close"}
     IN \E okk \in BOOLEAN :
          IF okk
          THEN /\ hw' = Flushed(top.pend)
               /\ stack' = SetTop([top EXCEPT !.pend = NoPend])
               /\ IF isSet THEN CtlWriteNoted(top)
                           ELSE UNCHANGED <<ctlWrote, lateWrite, lastStop>>
               /\ UNCHANGED <<exc, setpoints, restoreFail>>
          ELSE /\ exc' = "none"
               /\ IF isSet
                  THEN SetFailed(top) /\ UNCHANGED restoreFail
                  ELSE /\ stack' = SetTop(restore_on_error(top))
                       /\ restoreFail' = TRUE
                       /\ UNCHANGED setpoints
               /\ UNCHANGED <<hw, ctlWrote, lateWrite, lastStop>>
  /\ UNCHANGED <<env, original_settings, running, ticks, nsignals, restoreCount,
                 stopsDone, captureDone>>

\* SystemExit leaves a frame: a handler frame is dropped; in start() the try
\* block's finally clause runs stop(); outside the try block start() is left
Unwind ==
  /\ exc = "SystemExit" /\ stack # <<>> /\ top.pend = NoPend
  /\ IF top.phase = "handler"
     THEN stack' = SubSeq(stack, 1, Len(stack) - 1) /\ UNCHANGED exc
     ELSE IF top.phase = "tick"
     THEN stack' = SetTop(EnterFinally(top)) /\ exc' = "none"
     ELSE stack' = <<>> /\ exc' = "none"
  /\ UNCHANGED <<hw, env, original_settings, setpoints, running, ticks, nsignals, hist>>

Next ==
  \/ Start
  \/ Backup
  \/ SetBegin
  \/ SetEnableClose
  \/ SetPwmOpen
  \/ SetPwmClose
  \/ Loop
  \/ Adjust
  \/ Sleep
  \/ StopBegin
  \/ Restore
  \/ RestoreClose
  \/ Signal
  \/ SysExit
  \/ UnwindClose
  \/ Unwind

Spec == Init /\ [][Next]_vars

\* A run in which no signal is delivered: start() alone, ended by an
\* exception that escapes the loop body.
NextLoop ==
  \/ Start
  \/ Backup
  \/ SetBegin
  \/ SetEnableClose
  \/ SetPwmOpen
  \/ SetPwmClose
  \/ Loop
  \/ Adjust
  \/ Sleep
  \/ StopBegin
  \/ Restore
  \/ RestoreClose

SpecLoop == Init /\ [][NextLoop]_vars

\* The interpreter keeps executing the main thread; signal delivery is up to
\* the environment.
Step == NextLoop \/ SysExit \/ UnwindClose \/ Unwind

\* Termination does not depend on the values the registers hold: one
\* pre-control profile.
FairInit ==
  /\ Init
  /\ \A a \in Actuators : hw[pwm_device(a)] = 128 + a
  /\ \A a \in enable_exists : hw[pwm_enable(a)] = 2

FairSpec == FairInit /\ [][Next]_vars /\ WF_vars(Step)

\* ------------------------------------------------ the policy, tick by tick
\* adjust_cooling as a function of the reading and the recorded setpoints:
\* the loop has been running, the setpoints are values the controller can
\* have reached and the duty registers hold them, and from here on every
\* poll returns the same reading.  The mode files exist for all actuators or
\* for none.
PolicyTemps == {58, 59, 60, 70, 71, 76, 95}
PolicyPump == {100, 140, 255}
PolicyFan == {80, 140, 255}

PolicyInit ==
  /\ enable_exists \in {{}, Actuators}
  /\ unreadable = {}
  /\ steady \in PolicyTemps
  /\ current_pump_pwm \in PolicyPump
  /\ current_fan_pwms \in [Fans -> PolicyFan]
  /\ hw = [r \in Registers |-> IF r[2] = "pwm" THEN current(r[1])
                                ELSE IF r[1] \in enable_exists THEN 1 ELSE 0]
  /\ original_settings =
       [r \in {x \in Registers : RegExists(x)} |->
          Strip(ReadRaw(IF r[2] = "pwm" THEN 128 + r[1] ELSE 2))]
  /\ running = TRUE
  /\ stack = <<Frame("tick", "loop")>>
  /\ exc = "none"
  /\ ticks = MaxTicks
  /\ nsignals = 0
  /\ restoreCount = 0
  /\ stopsDone = 0
  /\ restoreFail = FALSE
  /\ lateWrite = FALSE
  /\ ctlWrote = TRUE
  /\ captureDone = TRUE
  /\ lastStop = <<>>

\* the body of the loop: poll, adjust_cooling with its set_*_pwm calls, wait
NextTick ==
  \/ Loop
  \/ Adjust
  \/ SetBegin
  \/ SetEnableClose
  \/ SetPwmOpen
  \/ SetPwmClose
  \/ Sleep

SpecPolicy == PolicyInit /\ [][NextTick]_vars

\* the loop keeps running
FairPolicy == PolicyInit /\ [][NextTick]_vars /\ WF_vars(NextTick)


\* ================================================================ claims
SetPcs == {"set", "en_close", "pwm_open", "pwm_close"}
Holds(r) == Strip(ReadRaw(hw[r]))
ConfiguredMin(a) == IF a = 0 THEN min_pump_pwm ELSE min_fan_pwm
ConfiguredMax(a) == IF a = 0 THEN max_pump_pwm ELSE max_fan_pwm
InBounds(a, v) == ConfiguredMin(a) <= v /\ v <= ConfiguredMax(a)

\* C1: once start() has ended - by any path, the termination signal coming
\* after the capture - and with every capture read and restore write having
\* succeeded, each captured register holds the captured value.
C1_RestoredOnEveryExit ==
  (Stopped /\ captureDone /\ unreadable = {} /\ ~restoreFail)
     => \A r \in DOMAIN original_settings : Holds(r) = original_settings[r]

\* C2: in a run that has ended, restore_original_settings has executed
\* exactly once.
C2_RestoreExactlyOnce == Stopped => restoreCount = 1

\* C3: no setpoint (duty-cycle) write of the loop reaches the hardware after
\* a stop() has begun restoring.
C3_NoLoopWriteAfterRestore == ~lateWrite

\* C4: no write of set_pump_pwm / set_fan_pwm reaches the hardware before
\* backup_original_settings has returned.
C4_CaptureBeforeWrite == ctlWrote => captureDone

C4_Witness == ctlWrote /\ captureDone /\ DOMAIN original_settings # {}

\* C5: every recorded setpoint, and every duty value set_*_pwm is writing,
\* lies within the configured [min, max] of its actuator.
C5_SetpointsInBounds ==
  /\ \A a \in Actuators : InBounds(a, current(a))
  /\ \A k \in 1..Len(stack) :
       (stack[k].pc = "pwm_close" /\ stack[k].pend # NoPend)
          => InBounds(stack[k].a, ParseRaw(stack[k].pend[2]))

C5_Witness ==
  \E a \in Actuators : /\ ticks > 0
                        /\ current(a) = ConfiguredMax(a)
                        /\ hw[pwm_device(a)] = current(a)


\* C6: once a termination signal has been delivered, start() eventually ends
\* with running = False and a stop() that has returned.
C6_TerminationReached ==
  (nsignals > 0) ~> (Stopped /\ ~running /\ stopsDone > 0)

C6_Witness == Stopped /\ nsignals > 0 /\ ~running /\ stopsDone > 0 /\ ticks > 0

TickWriteFails ==
  /\ stack # <<>> /\ Len(stack') = Len(stack)
  /\ top.phase = "tick" /\ top.pc \in SetPcs
  /\ stack'[Len(stack')].pc \notin SetPcs
  /\ stack'[Len(stack')].res = FALSE

\* C8: when a write of a tick fails, no recorded setpoint changes, running
\* is unchanged, and the tick goes on with the next actuator (or, after the
\* last one, with the wait).
C8_FailedWriteIsRecoverable ==
  [][TickWriteFails =>
       /\ setpoints' = setpoints
       /\ running' = running
       /\ stack'[Len(stack')].phase = "tick"
       /\ IF top.a < NumFans
          THEN stack'[Len(stack')].pc = "adjust" /\ stack'[Len(stack')].a = top.a + 1
          ELSE stack'[Len(stack')].pc = "sleep"]_vars

\* the pump write of a tick above the threshold failed, the fan was raised
C8_Witness ==
  /\ Len(stack) = 1 /\ top.pc = "sleep" /\ running
  /\ top.temp > temp_threshold
  /\ current_pump_pwm = min_pump_pwm
  /\ \E i \in Fans : current_fan_pwms[i] > min_fan_pwm

\* A step in which the poll of a tick fails (nvidia-smi fails or prints no
\* reading).
SensorFails ==
  /\ Active /\ top.pc = "loop" /\ running
  /\ Len(stack') = Len(stack)
  /\ stack'[Len(stack')].sensor = "failed"

\* C9: a tick whose poll fails goes straight to the wait, with no register,
\* setpoint, snapshot or running flag changed.
C9_SensorFailureSkipsTick ==
  [][SensorFails =>
       /\ stack'[Len(stack')].pc = "sleep"
       /\ stack'[Len(stack')].phase = "tick"
       /\ hw' = hw
       /\ setpoints' = setpoints
       /\ original_settings' = original_settings
       /\ running' = running]_vars

C9_Witness ==
  /\ Len(stack) = 1 /\ top.pc = "sleep" /\ top.sensor = "failed" /\ running
  /\ ticks > 1 /\ ctlWrote

\* C10: when backup_original_settings has returned, every existing register
\* whose read succeeds is in the snapshot.
C10_CaptureContinuesAfterFailure ==
  captureDone => \A r \in Registers :
                   (RegExists(r) /\ r \notin unreadable)
                      => r \in DOMAIN original_settings

\* Position of register r in CaptureOrder.
OrderOf(r) == CHOOSE k \in 1..CaptureLen : CaptureOrder[k] = r

\* A restore pass is at its end: stop() is about to return.
PassDone == stack # <<>> /\ exc = "none" /\ top.pc = "restore" /\ top.n > CaptureLen

\* C11: whatever entries' write-backs fail, every other snapshot entry has
\* been written back by the time the pass ends (it holds its captured
\* value), and start() ends with its stop() having returned, no exception
\* in flight.
C11_RestoreIsolatesFailures ==
  /\ PassDone => \A r \in DOMAIN original_settings :
                    r \in top.lost \/ Holds(r) = original_settings[r]
  /\ Stopped => (stopsDone = 1 /\ exc = "none")

\* a write-back failed, and an entry after it was put back from a value the
\* controller had written
C11_Witness ==
  /\ PassDone
  /\ \E r1 \in top.lost, a \in Actuators :
       /\ pwm_device(a) \in DOMAIN original_settings \ top.lost
       /\ OrderOf(r1) < OrderOf(pwm_device(a))
       /\ Holds(pwm_device(a)) = original_settings[pwm_device(a)]
       /\ hw[pwm_device(a)] # current(a)

\* ------------------------------------------------------------ the policy
\* A tick is under way: the poll has been made, old holds the setpoints
\* adjust_cooling was called with.
InTick == stack # <<>> /\ top.phase = "tick" /\ top.old # <<>> /\ top.temp # None
TickDone == InTick /\ top.pc = "sleep"
Old(a) == IF a = 0 THEN top.old[1] ELSE top.old[2][a]
OldInBounds == \A a \in Actuators : InBounds(a, Old(a))
Deadband(temp) == temp_threshold - 10 <= temp /\ temp <= temp_threshold

\* C12: in a tick whose reading is above the threshold, entered with
\* in-bounds setpoints, every setpoint is at least what it was before the
\* tick and at most the configured max.
C12_IncreaseMonotoneBounded ==
  (InTick /\ top.temp > temp_threshold /\ OldInBounds)
     => \A a \in Actuators : Old(a) <= current(a) /\ current(a) <= ConfiguredMax(a)

\* one actuator raised short of its max, another raised to its max
C12_Witness ==
  /\ TickDone /\ top.temp > temp_threshold
  /\ \E a \in Actuators : Old(a) < current(a) /\ current(a) < ConfiguredMax(a)
  /\ \E a \in Actuators : Old(a) < current(a) /\ current(a) = ConfiguredMax(a)

\* C13: in a tick whose reading is more than 10 below the threshold, entered
\* with in-bounds setpoints, every setpoint is at most what it was before
\* the tick and at least the configured min.
C13_DecreaseMonotoneBounded ==
  (InTick /\ top.temp < temp_threshold - 10 /\ OldInBounds)
     => \A a \in Actuators : current(a) <= Old(a) /\ ConfiguredMin(a) <= current(a)

\* one actuator lowered by a full step, another lowered onto its min
C13_Witness ==
  /\ TickDone /\ top.temp < temp_threshold - 10
  /\ \E a \in Actuators : current(a) = Old(a) - pwm_step /\ current(a) > ConfiguredMin(a)
  /\ \E a \in Actuators : current(a) < Old(a) /\ current(a) = ConfiguredMin(a)

\* C14: throughout a tick whose reading lies in the deadband, endpoints
\* included, no recorded setpoint and no register changes and no set_*_pwm
\* call is made.
C14_DeadbandNoOp ==
  [][(InTick /\ Deadband(top.temp))
       => /\ setpoints' = setpoints
          /\ hw' = hw
          /\ stack'[Len(stack')].pc \notin SetPcs]_vars

\* a tick at exactly the threshold has ended with setpoints strictly inside
\* their bounds
C14_Witness ==
  /\ TickDone /\ top.temp = temp_threshold
  /\ setpoints = top.old
  /\ \A a \in Actuators : ConfiguredMin(a) < current(a) /\ current(a) < ConfiguredMax(a)

\* The step function as the specification words it.
RefPumpIncrease(temp) == ((temp - temp_threshold) \div 5 + 1) * pwm_step
RefFanIncrease(temp) == (3 * RefPumpIncrease(temp)) \div 2
RefStep(a, temp, cur) ==
  IF temp > temp_threshold
  THEN Min(cur + (IF a = 0 THEN RefPumpIncrease(temp) ELSE RefFanIncrease(temp)),
           ConfiguredMax(a))
  ELSE IF temp < temp_threshold - 10
  THEN Max(cur - pwm_step, ConfiguredMin(a))
  ELSE cur

\* C15: at the end of a tick, every actuator whose write did not fail (all
\* of them when all writes succeed) is recorded at the reference step
\* function of the reading and its setpoint before the tick; the function
\* gives the specification's examples.
C15_TickComputesStepFunction ==
  /\ TickDone => \A a \in Actuators \ top.failed :
                    current(a) = RefStep(a, top.temp, Old(a))
  /\ RefStep(0, 76, 100) = 140 /\ RefStep(1, 76, 80) = 140
  /\ RefStep(0, 58, 140) = 120

\* the specification's example: pump 100, fan 80, reading 76
C15_Witness ==
  /\ TickDone /\ top.temp = 76 /\ top.failed = {}
  /\ Old(0) = 100 /\ current_pump_pwm = 140
  /\ \E i \in Fans : Old(i) = 80 /\ current_fan_pwms[i] = 140

\* Actuator a sits on the bound the reading drives it to.
AtBound(a, temp) ==
  \/ temp > temp_threshold /\ current(a) = ConfiguredMax(a)
  \/ temp < temp_threshold - 10 /\ current(a) = ConfiguredMin(a)

\* C16: in a tick, an actuator that sits on the bound its reading drives it
\* to keeps its recorded setpoint, no set_*_pwm call is made for it and
\* neither of its registers is written.
C16_IdempotentAtBound ==
  [][\A a \in Actuators :
       (InTick /\ AtBound(a, top.temp))
          => /\ current(a)' = current(a)
             /\ hw'[pwm_device(a)] = hw[pwm_device(a)]
             /\ hw'[pwm_enable(a)] = hw[pwm_enable(a)]
             /\ ~(stack'[Len(stack')].pc \in SetPcs /\ stack'[Len(stack')].a = a)]_vars

\* the specification's example: a tick at 95 entered with the pump at 255
\* has ended, having raised a fan and left the pump alone
C16_Witness ==
  /\ TickDone /\ top.temp = 95
  /\ Old(0) = max_pump_pwm /\ current_pump_pwm = max_pump_pwm
  /\ hw[pwm_device(0)] = max_pump_pwm
  /\ \E i \in Fans : Old(i) < current_fan_pwms[i]

\* C17: until a set_*_pwm write reaches the hardware, every snapshot entry is
\* the text its register holds, and no step - the write-backs of a restore
\* pass included - changes the value of any register.
C17_RestoreRoundTrip ==
  /\ [](~ctlWrote => \A r \in DOMAIN original_settings :
                        original_settings[r] = Holds(r))
  /\ [][~ctlWrote' => hw' = hw]_vars

\* every duty and mode register captured and written back, no set_*_pwm
\* write having reached the hardware
C17_Witness ==
  /\ PassDone /\ ~ctlWrote /\ top.lost = {}
  /\ enable_exists = Actuators
  /\ DOMAIN original_settings = Registers

\* A step in which a write of set_*_pwm changes the value of register r.
CtlModifies(r) ==
  /\ stack # <<>> /\ top.pc \in {"en_close", "pwm_close"}
  /\ top.pend # NoPend /\ top.pend[1] = r
  /\ hw'[r] # hw[r]

\* C18: every register a set_*_pwm write modifies has an entry in the
\* snapshot when it is modified.
C18_WrittenIsRestorable ==
  [][\A r \in Registers : CtlModifies(r) => r \in DOMAIN original_settings]_vars

\* C19: between ticks, while running, every recorded setpoint is the value
\* its duty-cycle register holds.
C19_RecordedTracksHardware ==
  (Len(stack) = 1 /\ exc = "none" /\ top.phase = "tick"
     /\ top.pc \in {"loop", "sleep"} /\ running)
     => \A a \in Actuators : hw[pwm_device(a)] = current(a)

\* Where a steady reading drives actuator a: its max above the threshold,
\* its min more than 10 below it, nowhere in the deadband.
Target(a) == IF steady > temp_threshold THEN ConfiguredMax(a)
             ELSE IF steady < temp_threshold - 10 THEN ConfiguredMin(a)
             ELSE current(a)
AtRest == \A a \in Actuators : current(a) = Target(a)
NoWriteFailed == top.failed = {}

\* C20: under a steady reading no setpoint ever moves against the direction
\* of the reading (up above the threshold, down more than 10 below it, not
\* at all in the deadband), and if from some tick on no write fails, the
\* setpoints come to rest on their targets for good.
C20_SteadyReadingConverges ==
  /\ [][\A a \in Actuators :
         /\ steady > temp_threshold => current(a)' >= current(a)
         /\ steady < temp_threshold - 10 => current(a)' <= current(a)
         /\ Deadband(steady) => current(a)' = current(a)]_vars
  /\ (<>[]NoWriteFailed => <>[]AtRest)

\* the tick that takes the pump from 240 onto its max at a steady 71, the
\* fans being there already
C20_Witness ==
  /\ TickDone /\ steady = 71 /\ AtRest
  /\ Old(0) = 240 /\ current_pump_pwm = max_pump_pwm

====
